---- MODULE Spec2Model ----
(***************************************************************************)
(* Model of the SidebarProvider pattern documented in                      *)
(* REUSABLE-REACT-COMPONENTS-GUIDELINES.md: the provider's React state      *)
(* (_open, openMobile, isMobile), the callbacks it creates with             *)
(* useCallback (setOpen, toggleSidebar) together with the values their      *)
(* closures captured, the context value consumers read through useSidebar,  *)
(* the cookie written by setOpen, and SidebarMenuButton's tooltip decision. *)
(*                                                                         *)
(* React's rendering is modelled as follows.  A state setter (_setOpen,     *)
(* setOpenMobile) changes the stored state at once, but the values the      *)
(* callbacks closed over, and the context value, are those of the last      *)
(* render; Commit is the re-render that ends an event-handling turn.        *)
(* An optional value (a prop that may be undefined, a context that may be   *)
(* null) is a sequence of length 0 or 1.                                    *)
(***************************************************************************)
EXTENDS Naturals, Sequences, FiniteSets, TLC

VARIABLES
    mounted,      \* a SidebarProvider instance is active
    props,        \* the props handed to the provider by its owner
    _open,        \* React.useState(defaultOpen)
    openMobile,   \* useState(false)
    isMobile,     \* useIsMobile()
    ctx,          \* the context value of the last render (with the callbacks)
    cookie,       \* document.cookie, as a set of cookie records
    listeners,    \* the keydown listeners registered on window, oldest first
    turn,         \* the calls made since the last render, oldest first
    turnStart,    \* _open and openMobile as they were at the last render
    run,          \* the current run of consecutive toggleSidebar() calls
    since,        \* what has happened to this provider since its mount
    lastOp        \* the operation performed by the last step, with its effects

vars == <<mounted, props, _open, openMobile, isMobile, ctx, cookie, listeners,
          turn, turnStart, run, since, lastOp>>

---------------------------------------------------------------------------
(* Bounds of the model *)

\* calls a single event-handling turn may make before its re-render
MaxTurn == 2

\* length of a run of consecutive toggleSidebar() calls
MaxToggles == 2

---------------------------------------------------------------------------
(* Values *)

Undefined == <<>>

Some(v) == <<v>>

Maybe(S) == {Undefined} \cup {Some(v) : v \in S}

\* the arguments setOpen is called with: a literal boolean, or the
\* functional updater (open) => !open
Negate == "negate"

SetOpenArgs == {"true", "false", Negate}

SIDEBAR_COOKIE_NAME == "sidebar_state"

SIDEBAR_COOKIE_MAX_AGE == 60 * 60 * 24 * 7

\* `${openState}` in the template literal of document.cookie
BoolToString(b) == IF b THEN "true" ELSE "false"

\* defaultOpen = true in the destructured props
DefaultOpen(p) == IF p.defaultOpen = Undefined THEN TRUE ELSE p.defaultOpen[1]

\* the open prop used only when onOpenChange is supplied with it
ResolvedOpenPairOnly(p, o) ==
    IF p.open # Undefined /\ p.onOpenChange THEN p.open[1] ELSE o

\* open taken from the internal state even when the open prop is supplied
ResolvedOpenInternalOnly(p, o) == o

\* const open = openProp ?? _open
ResolvedOpen(p, o) == IF p.open = Undefined THEN o ELSE p.open[1]

\* state: open ? "expanded" : "collapsed"
StateOf(o) == IF o THEN "expanded" ELSE "collapsed"

\* typeof value === "function" ? value(open) : value
Resolve(value, open) ==
    IF value = Negate THEN ~open ELSE (value = "true")

\* the assignment with the minutes left out of the max-age product
WriteCookieOneWeekOfMinutes(jar, name, value) ==
    {c \in jar : ~(c.name = name /\ c.path = "/")}
        \cup {[name |-> name, value |-> value, path |-> "/",
               maxAge |-> 60 * 24 * 7]}

\* document.cookie = `name=value; path=/; max-age=...`: the assignment
\* replaces the cookie of that name and path and keeps every other one
WriteCookie(jar, name, value) ==
    {c \in jar : ~(c.name = name /\ c.path = "/")}
        \cup {[name |-> name, value |-> value, path |-> "/",
               maxAge |-> SIDEBAR_COOKIE_MAX_AGE]}

---------------------------------------------------------------------------
(* The provider's render *)

\* a setOpen that uses onOpenChange only when the open prop is supplied too
SetOpenCallbackPairOnly(p, open) ==
    [open |-> open, setOpenProp |-> p.onOpenChange /\ p.open # Undefined]

\* React.useCallback(..., [setOpenProp, open]): the callback closes over the
\* open and the setOpenProp of the render that created it
SetOpenCallback(p, open) == [open |-> open, setOpenProp |-> p.onOpenChange]

\* useCallback(..., [isMobile]): a new callback only when isMobile changed;
\* it closes over the isMobile and the setOpen of the render that created it
ToggleSidebarCallback(prev, mobile, setOpen) ==
    IF prev = Undefined \/ prev[1].toggleSidebar.isMobile # mobile
    THEN [isMobile |-> mobile, setOpen |-> setOpen]
    ELSE prev[1].toggleSidebar

\* the dependency array of the contextValue memo:
\* [state, open, setOpen, toggleSidebar, isMobile]
MemoDeps(c) == <<c.state, c.open, c.setOpen, c.toggleSidebar, c.isMobile>>

\* useMemo(factory, deps): the factory runs on the first render and when a
\* dependency differs from the previous render's; otherwise the previous
\* object is returned
UseMemo(prev, fresh) ==
    IF prev # Undefined /\ MemoDeps(prev[1]) = MemoDeps(fresh)
    THEN prev[1]
    ELSE fresh

\* a render that derives state from the slot isMobile selects
RenderProviderStateOfSlot(prev, p, o, om, mobile) ==
    LET open == ResolvedOpen(p, o)
        setOpen == SetOpenCallback(p, open)
    IN  UseMemo(prev,
                [state |-> StateOf(IF mobile THEN om ELSE open),
                 open |-> open,
                 openMobile |-> om,
                 isMobile |-> mobile,
                 setOpen |-> setOpen,
                 toggleSidebar |-> ToggleSidebarCallback(prev, mobile, setOpen)])

\* one render of SidebarProvider; prev is the context value of the previous
\* render of this instance, Undefined on the first render
RenderProvider(prev, p, o, om, mobile) ==
    LET open == ResolvedOpen(p, o)
        setOpen == SetOpenCallback(p, open)
    IN  UseMemo(prev,
                [state |-> StateOf(open),
                 open |-> open,
                 openMobile |-> om,
                 isMobile |-> mobile,
                 setOpen |-> setOpen,
                 toggleSidebar |-> ToggleSidebarCallback(prev, mobile, setOpen)])

\* whether the render that produced next from prev ran the memo's factory,
\* that is, whether next is a new object
IsNewObject(prev, next) ==
    prev = Undefined \/ MemoDeps(prev[1]) # MemoDeps(next)

\* what a value of ctx looks like while no provider is mounted
NoCtx == RenderProvider(Undefined,
                        [defaultOpen |-> Undefined, open |-> Undefined,
                         onOpenChange |-> FALSE],
                        FALSE, FALSE, FALSE)

NoProps == [defaultOpen |-> Undefined, open |-> Undefined, onOpenChange |-> FALSE]

\* the props of the model: defaultOpen omitted (so true) or false, open
\* omitted, true or false, onOpenChange omitted or supplied
PropsSet == [defaultOpen : {Undefined, Some(FALSE)}, open : Maybe(BOOLEAN),
             onOpenChange : BOOLEAN]

---------------------------------------------------------------------------
(* The callbacks *)

\* setOpen with _setOpen called in both branches: a controlled provider
\* stores the value as well as reporting it
SetOpenCallAlwaysStores(cl, value, o, jar) ==
    LET openState == Resolve(value, cl.open)
    IN  [_open |-> openState,
         onChange |-> IF cl.setOpenProp THEN <<openState>> ELSE <<>>,
         cookie |-> WriteCookie(jar, SIDEBAR_COOKIE_NAME, BoolToString(openState)),
         writes |-> 1]

\* setOpen with the cookie write moved into the setOpenProp branch
SetOpenCallPersistsControlledOnly(cl, value, o, jar) ==
    LET openState == Resolve(value, cl.open)
    IN  [_open |-> IF cl.setOpenProp THEN o ELSE openState,
         onChange |-> IF cl.setOpenProp THEN <<openState>> ELSE <<>>,
         cookie |-> IF cl.setOpenProp
                    THEN WriteCookie(jar, SIDEBAR_COOKIE_NAME, BoolToString(openState))
                    ELSE jar,
         writes |-> IF cl.setOpenProp THEN 1 ELSE 0]

\* setOpen returning early when the resolved value is the open it captured
SetOpenCallSkipsUnchanged(cl, value, o, jar) ==
    LET openState == Resolve(value, cl.open)
    IN  IF openState = cl.open
        THEN [_open |-> o, onChange |-> <<>>, cookie |-> jar, writes |-> 0]
        ELSE [_open |-> IF cl.setOpenProp THEN o ELSE openState,
              onChange |-> IF cl.setOpenProp THEN <<openState>> ELSE <<>>,
              cookie |-> WriteCookie(jar, SIDEBAR_COOKIE_NAME,
                                     BoolToString(openState)),
              writes |-> 1]

\* setOpen with the cookie write moved into the _setOpen branch
SetOpenCallPersistsStoredOnly(cl, value, o, jar) ==
    LET openState == Resolve(value, cl.open)
    IN  [_open |-> IF cl.setOpenProp THEN o ELSE openState,
         onChange |-> IF cl.setOpenProp THEN <<openState>> ELSE <<>>,
         cookie |-> IF cl.setOpenProp
                    THEN jar
                    ELSE WriteCookie(jar, SIDEBAR_COOKIE_NAME, BoolToString(openState)),
         writes |-> IF cl.setOpenProp THEN 0 ELSE 1]

\* the body of setOpen, run in the closure cl, on stored state o and cookie
\* jar: what it stores, what it passes to setOpenProp, what it writes
\* setOpen resolving an updater against the stored _open instead of the
\* open its closure captured
SetOpenCallResolvesStored(cl, value, o, jar) ==
    LET openState == Resolve(value, o)
    IN  [_open |-> IF cl.setOpenProp THEN o ELSE openState,
         onChange |-> IF cl.setOpenProp THEN <<openState>> ELSE <<>>,
         cookie |-> WriteCookie(jar, SIDEBAR_COOKIE_NAME, BoolToString(openState)),
         writes |-> 1]

SetOpenCall(cl, value, o, jar) ==
    LET openState == Resolve(value, cl.open)
    IN  [_open |-> IF cl.setOpenProp THEN o ELSE openState,
         onChange |-> IF cl.setOpenProp THEN <<openState>> ELSE <<>>,
         cookie |-> WriteCookie(jar, SIDEBAR_COOKIE_NAME, BoolToString(openState)),
         writes |-> 1]

\* toggleSidebar without the isMobile test
ToggleTargetDesktop(tc) == "desktop"

\* toggleSidebar with the branches of the isMobile test exchanged
ToggleTargetExchanged(tc) == IF tc.isMobile THEN "desktop" ELSE "mobile"

\* isMobile ? setOpenMobile(...) : setOpen(...), in the closure tc
ToggleTarget(tc) == IF tc.isMobile THEN "mobile" ELSE "desktop"

\* setOpenMobile((open) => !open): React applies the updater to the latest
\* stored state
ToggleMobile(om) == ~om

\* toggleSidebar writing the cookie in the mobile branch too
ToggleCallPersistsMobile(tc, o, om, jar) ==
    IF ToggleTarget(tc) = "mobile"
    THEN [_open |-> o, openMobile |-> ToggleMobile(om), onChange |-> <<>>,
          cookie |-> WriteCookie(jar, SIDEBAR_COOKIE_NAME,
                                 BoolToString(ToggleMobile(om))),
          writes |-> 1]
    ELSE LET r == SetOpenCall(tc.setOpen, Negate, o, jar)
         IN  [_open |-> r._open, openMobile |-> om, onChange |-> r.onChange,
              cookie |-> r.cookie, writes |-> r.writes]

\* toggleSidebar reporting the mobile value to onOpenChange when that prop
\* is supplied
ToggleCallReportsMobile(tc, o, om, jar) ==
    IF ToggleTarget(tc) = "mobile"
    THEN [_open |-> o, openMobile |-> ToggleMobile(om),
          onChange |-> IF tc.setOpen.setOpenProp THEN <<ToggleMobile(om)>>
                       ELSE <<>>,
          cookie |-> jar, writes |-> 0]
    ELSE LET r == SetOpenCall(tc.setOpen, Negate, o, jar)
         IN  [_open |-> r._open, openMobile |-> om, onChange |-> r.onChange,
              cookie |-> r.cookie, writes |-> r.writes]

\* the body of toggleSidebar, run in the closure tc
ToggleCall(tc, o, om, jar) ==
    IF ToggleTarget(tc) = "mobile"
    THEN [_open |-> o, openMobile |-> ToggleMobile(om), onChange |-> <<>>,
          cookie |-> jar, writes |-> 0]
    ELSE LET r == SetOpenCall(tc.setOpen, Negate, o, jar)
         IN  [_open |-> r._open, openMobile |-> om, onChange |-> r.onChange,
              cookie |-> r.cookie, writes |-> r.writes]

\* what the browser does with one assignment to document.cookie: it stores
\* the cookie; it drops it without a word (cookies disabled, storage full);
\* or the assignment throws a SecurityError (a sandboxed document, an opaque
\* origin)
CookieStores == {"stored", "ignored", "throws"}

\* the cookie jar after an assignment that would have produced written; a
\* call that makes no assignment is given the outcome "stored"
AssignCookie(store, jar, written) == IF store = "stored" THEN written ELSE jar

\* setOpen has no try / catch around the assignment: what the assignment
\* throws, the call throws, after it has called _setOpen or setOpenProp
Throws(store, writes) == writes > 0 /\ store = "throws"

---------------------------------------------------------------------------
(* The keyboard shortcut *)

\* the keydown events of the model: event.key, event.metaKey, event.ctrlKey
KeyEvents ==
    {e \in [key : {"b", "B"}, metaKey : BOOLEAN, ctrlKey : BOOLEAN] :
        e.key = "b" \/ (e.ctrlKey /\ ~e.metaKey)}

\* event.key === "b" && (event.metaKey || event.ctrlKey)
MatchesShortcut(event) == event.key = "b" /\ (event.metaKey \/ event.ctrlKey)

\* the handleKeyDown one run of the effect creates: it closes over the
\* toggleSidebar of the render the effect belongs to
HandleKeyDown(toggleSidebar) == [toggleSidebar |-> toggleSidebar]

\* window.addEventListener("keydown", h), h a function created by this run
\* of the effect, so never one that is registered already
AddEventListener(ls, h) == Append(ls, h)

\* window.removeEventListener("keydown", h): the registration of h goes
RemoveEventListener(ls, h) ==
    IF \E i \in 1..Len(ls) : ls[i] = h
    THEN LET i == CHOOSE j \in 1..Len(ls) :
                     ls[j] = h /\ \A k \in 1..(j - 1) : ls[k] # h
         IN  SubSeq(ls, 1, i - 1) \o SubSeq(ls, i + 1, Len(ls))
    ELSE ls

\* the effect with no cleanup: every run registers one more listener
KeyboardEffectLeaking(prev, next, ls) ==
    IF prev = Undefined \/ prev[1].toggleSidebar # next.toggleSidebar
    THEN AddEventListener(ls, HandleKeyDown(next.toggleSidebar))
    ELSE ls

\* useEffect(..., [toggleSidebar]) after a render: on the first render it
\* registers the handler; when toggleSidebar changed, the cleanup of the
\* previous run removes its handler and the new run registers its own
KeyboardEffect(prev, next, ls) ==
    IF prev = Undefined
    THEN AddEventListener(ls, HandleKeyDown(next.toggleSidebar))
    ELSE IF prev[1].toggleSidebar # next.toggleSidebar
         THEN AddEventListener(
                  RemoveEventListener(ls, HandleKeyDown(prev[1].toggleSidebar)),
                  HandleKeyDown(next.toggleSidebar))
         ELSE ls

\* the cleanup that runs when the provider is unmounted
KeyboardCleanup(c, ls) == RemoveEventListener(ls, HandleKeyDown(c.toggleSidebar))

\* handleKeyDown without the modifier test
HandleKeyDownCallAnyModifier(h, event, st) ==
    IF event.key = "b"
    THEN LET r == ToggleCall(h.toggleSidebar, st._open, st.openMobile, st.cookie)
         IN  [_open |-> r._open, openMobile |-> r.openMobile, cookie |-> r.cookie,
              onChange |-> st.onChange \o r.onChange,
              writes |-> st.writes + r.writes,
              toggles |-> st.toggles + 1, prevented |-> TRUE]
    ELSE st

\* handleKeyDown testing the meta modifier only
HandleKeyDownCallMetaOnly(h, event, st) ==
    IF event.key = "b" /\ event.metaKey
    THEN LET r == ToggleCall(h.toggleSidebar, st._open, st.openMobile, st.cookie)
         IN  [_open |-> r._open, openMobile |-> r.openMobile, cookie |-> r.cookie,
              onChange |-> st.onChange \o r.onChange,
              writes |-> st.writes + r.writes,
              toggles |-> st.toggles + 1, prevented |-> TRUE]
    ELSE st

\* the body of handleKeyDown, run in the closure h on the dispatch state st:
\* on the shortcut it prevents the default action and calls toggleSidebar()
HandleKeyDownCall(h, event, st) ==
    IF MatchesShortcut(event)
    THEN LET r == ToggleCall(h.toggleSidebar, st._open, st.openMobile, st.cookie)
         IN  [_open |-> r._open, openMobile |-> r.openMobile, cookie |-> r.cookie,
              onChange |-> st.onChange \o r.onChange,
              writes |-> st.writes + r.writes,
              toggles |-> st.toggles + 1, prevented |-> TRUE]
    ELSE st

\* the browser dispatches the event to every registered listener in turn
RECURSIVE DispatchKeyDown(_, _, _)
DispatchKeyDown(ls, event, st) ==
    IF ls = <<>> THEN st
    ELSE DispatchKeyDown(Tail(ls), event, HandleKeyDownCall(Head(ls), event, st))

---------------------------------------------------------------------------
(* The consumers *)

\* React.useContext(SidebarContext): the value of the enclosing provider, or
\* the null that createContext was given
SidebarContext == IF mounted THEN Some(ctx) ELSE Undefined

\* useSidebar without the null check
useSidebarUnchecked(context) == [threw |-> FALSE, returned |-> context]

\* useSidebar: throws when the context is null, else returns it
useSidebar(context) ==
    IF context = Undefined
    THEN [threw |-> TRUE, returned |-> Undefined]
    ELSE [threw |-> FALSE, returned |-> context]

\* the tooltip props a SidebarMenuButton is rendered with
Tooltips == Maybe({"", "Settings"})

\* !tooltip is false for a non-empty string only
Truthy(tooltip) == tooltip # Undefined /\ tooltip[1] # ""

\* SidebarMenuButton without the isMobile test
ShowsTooltipIgnoringMobile(tooltip, state, mobile) ==
    ~(~Truthy(tooltip) \/ state # "collapsed")

\* SidebarMenuButton: the bare button when
\* !tooltip || state !== "collapsed" || isMobile, else the button in a Tooltip
ShowsTooltip(tooltip, state, mobile) ==
    ~(~Truthy(tooltip) \/ state # "collapsed" \/ mobile)

---------------------------------------------------------------------------
(* History *)

NoRun == [len |-> 0, start |-> FALSE, clean |-> TRUE]

\* since the mount: the owner has supplied or withdrawn the open or the
\* onOpenChange prop (reowned)
Fresh == [reowned |-> FALSE]

\* the record of one step: the operation and its argument, the values it
\* passed to onOpenChange, the number of cookie writes it made, whether it
\* threw, what useSidebar returned, SidebarMenuButton's tooltip and
\* whether it rendered the Tooltip, the keydown event dispatched, whether its
\* default action was prevented and the number of toggleSidebar() calls
\* made, whether a render produced a new context value object, and what the
\* browser did with the cookie assignment of the call ("none": no assignment)
Op(name, arg) == [name |-> name, arg |-> arg, onChange |-> <<>>, writes |-> 0,
                  threw |-> FALSE, returned |-> Undefined,
                  tooltip |-> Undefined, shown |-> FALSE,
                  event |-> Undefined, prevented |-> FALSE, toggles |-> 0,
                  newCtx |-> FALSE, store |-> "none"]

\* the slot toggleSidebar is meant to act on: openMobile when mobile, else
\* the stored desktop state
Authoritative == IF isMobile THEN openMobile ELSE _open

\* a run in which a call was made with no render since the call before it:
\* it is counted no further
BrokenRun == [len |-> 0, start |-> FALSE, clean |-> FALSE]

\* the run after one more toggleSidebar() call, made in the turn t
NextRun(r, t) ==
    IF r.clean /\ t = <<>>
    THEN [len |-> r.len + 1,
          start |-> IF r.len = 0 THEN Authoritative ELSE r.start,
          clean |-> TRUE]
    ELSE BrokenRun

---------------------------------------------------------------------------
(* Initial state: nothing mounted, no cookie *)

Init ==
    /\ mounted = FALSE
    /\ props = NoProps
    /\ _open = FALSE
    /\ openMobile = FALSE
    /\ isMobile = FALSE
    /\ ctx = NoCtx
    /\ cookie = {}
    /\ listeners = <<>>
    /\ turn = <<>>
    /\ turnStart = [_open |-> FALSE, openMobile |-> FALSE]
    /\ run = NoRun
    /\ since = Fresh
    /\ lastOp = Op("init", "")

---------------------------------------------------------------------------
(* Actions *)

\* the first render of a new SidebarProvider with props p, in an environment
\* where useIsMobile() gives mobile
Mount(p, mobile) ==
    /\ ~mounted
    /\ mounted' = TRUE
    /\ props' = p
    /\ _open' = DefaultOpen(p)
    /\ openMobile' = FALSE
    /\ isMobile' = mobile
    /\ ctx' = RenderProvider(Undefined, p, DefaultOpen(p), FALSE, mobile)
    /\ listeners' = KeyboardEffect(Undefined, ctx', listeners)
    /\ turn' = <<>>
    /\ turnStart' = [_open |-> DefaultOpen(p), openMobile |-> FALSE]
    /\ run' = NoRun
    /\ since' = Fresh
    /\ lastOp' = [Op("mount", "") EXCEPT !.newCtx = IsNewObject(Undefined, ctx')]
    /\ UNCHANGED cookie

\* the provider is removed: its state and callbacks are gone, the cookie stays
Unmount ==
    /\ mounted
    /\ mounted' = FALSE
    /\ props' = NoProps
    /\ _open' = FALSE
    /\ openMobile' = FALSE
    /\ isMobile' = FALSE
    /\ ctx' = NoCtx
    /\ listeners' = KeyboardCleanup(ctx, listeners)
    /\ turn' = <<>>
    /\ turnStart' = [_open |-> FALSE, openMobile |-> FALSE]
    /\ run' = NoRun
    /\ since' = Fresh
    /\ lastOp' = Op("unmount", "")
    /\ UNCHANGED cookie

\* the re-render that ends an event-handling turn
Commit ==
    /\ mounted
    /\ turn # <<>>
    /\ ctx' = RenderProvider(Some(ctx), props, _open, openMobile, isMobile)
    /\ listeners' = KeyboardEffect(Some(ctx), ctx', listeners)
    /\ turn' = <<>>
    /\ turnStart' = [_open |-> _open, openMobile |-> openMobile]
    /\ lastOp' = [Op("commit", "") EXCEPT
                    !.newCtx = IsNewObject(Some(ctx), ctx')]
    /\ UNCHANGED <<mounted, props, _open, openMobile, isMobile, cookie, run,
                   since>>

\* a consumer's event handler is running: it has made a call that returned.
\* (The keydown listener and the Sheet's onOpenChange are handlers of one
\* call, and a handler in which a call threw makes no further call.)
InHandler ==
    /\ lastOp.name \in {"setOpen", "toggleSidebar"}
    /\ ~lastOp.threw

\* a consumer calls the setOpen of the context value, in an event handler
SetOpen(value, store) ==
    /\ mounted
    /\ Len(turn) < MaxTurn
    /\ turn # <<>> => InHandler
    /\ LET r == SetOpenCall(ctx.setOpen, value, _open, cookie)
       IN  /\ _open' = r._open
           /\ cookie' = AssignCookie(store, cookie, r.cookie)
           /\ lastOp' = [Op("setOpen", value) EXCEPT
                           !.onChange = r.onChange, !.writes = r.writes,
                           !.store = store,
                           !.threw = Throws(store, r.writes)]
    /\ turn' = Append(turn, <<"setOpen", value>>)
    /\ run' = NoRun
    /\ UNCHANGED <<mounted, props, openMobile, isMobile, ctx, listeners,
                   turnStart, since>>

\* a consumer calls the toggleSidebar of the context value, in an event
\* handler
ToggleSidebar(store) ==
    /\ mounted
    /\ Len(turn) < MaxTurn
    /\ turn # <<>> => InHandler
    /\ run.len < MaxToggles
    /\ LET r == ToggleCall(ctx.toggleSidebar, _open, openMobile, cookie)
       IN  /\ r.writes = 0 => store = "stored"
           /\ _open' = r._open
           /\ openMobile' = r.openMobile
           /\ cookie' = AssignCookie(store, cookie, r.cookie)
           /\ lastOp' = [Op("toggleSidebar", "") EXCEPT
                           !.onChange = r.onChange, !.writes = r.writes,
                           !.store = IF r.writes > 0 THEN store ELSE "none",
                           !.threw = Throws(store, r.writes)]
    /\ turn' = Append(turn, <<"toggleSidebar", "">>)
    /\ run' = NextRun(run, turn)
    /\ UNCHANGED <<mounted, props, isMobile, ctx, listeners, turnStart, since>>

\* Sidebar hands setOpenMobile to the Sheet as onOpenChange: the Sheet
\* reports that it opened or closed
SetOpenMobile(v) ==
    /\ mounted
    /\ isMobile
    /\ turn = <<>>
    /\ openMobile' = v
    /\ turn' = <<(<<"setOpenMobile", BoolToString(v)>>)>>
    /\ run' = NoRun
    /\ lastOp' = Op("setOpenMobile", BoolToString(v))
    /\ UNCHANGED <<mounted, props, _open, isMobile, ctx, cookie, listeners,
                   turnStart, since>>

\* a change of mode that closes the mobile sheet
SetIsMobileClosingSheet ==
    /\ mounted
    /\ isMobile' = ~isMobile
    /\ openMobile' = FALSE
    /\ ctx' = RenderProvider(Some(ctx), props, _open, FALSE, ~isMobile)
    /\ listeners' = KeyboardEffect(Some(ctx), ctx', listeners)
    /\ turn' = <<>>
    /\ turnStart' = [_open |-> _open, openMobile |-> FALSE]
    /\ run' = NoRun
    /\ lastOp' = [Op("setIsMobile", BoolToString(~isMobile)) EXCEPT
                    !.newCtx = IsNewObject(Some(ctx), ctx')]
    /\ UNCHANGED <<mounted, props, _open, cookie, since>>

\* useIsMobile() reports the other mode; the provider re-renders
SetIsMobile ==
    /\ mounted
    /\ isMobile' = ~isMobile
    /\ ctx' = RenderProvider(Some(ctx), props, _open, openMobile, ~isMobile)
    /\ listeners' = KeyboardEffect(Some(ctx), ctx', listeners)
    /\ turn' = <<>>
    /\ turnStart' = [_open |-> _open, openMobile |-> openMobile]
    /\ run' = NoRun
    /\ lastOp' = [Op("setIsMobile", BoolToString(~isMobile)) EXCEPT
                    !.newCtx = IsNewObject(Some(ctx), ctx')]
    /\ UNCHANGED <<mounted, props, _open, openMobile, cookie, since>>

\* the owner re-renders the provider with other open / onOpenChange props
PropsChange(o, f) ==
    /\ mounted
    /\ <<o, f>> # <<props.open, props.onOpenChange>>
    /\ props' = [props EXCEPT !.open = o, !.onOpenChange = f]
    /\ ctx' = RenderProvider(Some(ctx), props', _open, openMobile, isMobile)
    /\ listeners' = KeyboardEffect(Some(ctx), ctx', listeners)
    /\ turn' = <<>>
    /\ turnStart' = [_open |-> _open, openMobile |-> openMobile]
    /\ run' = NoRun
    /\ since' = [since EXCEPT !.reowned =
                    \/ since.reowned
                    \/ (o = Undefined) # (props.open = Undefined)
                    \/ f # props.onOpenChange]
    /\ lastOp' = [Op("propsChange", "") EXCEPT
                    !.newCtx = IsNewObject(Some(ctx), ctx')]
    /\ UNCHANGED <<mounted, _open, openMobile, isMobile, cookie>>

\* the provider renders again for a reason of its own (its parent rendered,
\* its children changed) with the same props and no state update pending
Rerender ==
    /\ mounted
    /\ turn = <<>>
    /\ ctx' = RenderProvider(Some(ctx), props, _open, openMobile, isMobile)
    /\ listeners' = KeyboardEffect(Some(ctx), ctx', listeners)
    /\ turnStart' = [_open |-> _open, openMobile |-> openMobile]
    /\ lastOp' = [Op("rerender", "") EXCEPT
                    !.newCtx = IsNewObject(Some(ctx), ctx')]
    /\ UNCHANGED <<mounted, props, _open, openMobile, isMobile, cookie, turn,
                   run, since>>

\* a component calls useSidebar() while it renders; components render
\* with the provider's render, never in the middle of a turn
UseSidebar ==
    /\ turn = <<>>
    /\ LET r == useSidebar(SidebarContext)
       IN  lastOp' = [Op("useSidebar", "") EXCEPT
                        !.threw = r.threw, !.returned = r.returned]
    /\ UNCHANGED <<mounted, props, _open, openMobile, isMobile, ctx, cookie,
                   listeners, turn, turnStart, run, since>>

\* a SidebarMenuButton is rendered with the given tooltip prop
SidebarMenuButton(tooltip) ==
    /\ turn = <<>>
    /\ LET r == useSidebar(SidebarContext)
       IN  lastOp' = [Op("SidebarMenuButton", "") EXCEPT
                        !.threw = r.threw,
                        !.tooltip = tooltip,
                        !.shown = IF r.threw THEN FALSE
                                  ELSE ShowsTooltip(tooltip, r.returned[1].state,
                                                    r.returned[1].isMobile)]
    /\ UNCHANGED <<mounted, props, _open, openMobile, isMobile, ctx, cookie,
                   listeners, turn, turnStart, run, since>>

\* the user presses a key: the browser dispatches a keydown event on window,
\* as a turn of its own
KeyDown(event, store) ==
    /\ turn = <<>>
    /\ run.len < MaxToggles
    /\ LET st == DispatchKeyDown(listeners, event,
                                 [_open |-> _open, openMobile |-> openMobile,
                                  cookie |-> cookie, onChange |-> <<>>,
                                  writes |-> 0, toggles |-> 0,
                                  prevented |-> FALSE])
       IN  /\ st.writes = 0 => store = "stored"
           /\ _open' = st._open
           /\ openMobile' = st.openMobile
           /\ cookie' = AssignCookie(store, cookie, st.cookie)
           /\ lastOp' = [Op("keydown", "") EXCEPT
                           !.event = Some(event),
                           !.onChange = st.onChange, !.writes = st.writes,
                           !.toggles = st.toggles, !.prevented = st.prevented,
                           !.store = IF st.writes > 0 THEN store ELSE "none",
                           !.threw = Throws(store, st.writes)]
           /\ turn' = IF st.toggles > 0 THEN <<(<<"toggleSidebar", "">>)>>
                      ELSE <<>>
           /\ run' = IF st.toggles > 0 THEN NextRun(run, turn) ELSE run
    /\ UNCHANGED <<mounted, props, isMobile, ctx, listeners, turnStart, since>>

Next ==
    \/ \E p \in PropsSet, m \in BOOLEAN : Mount(p, m)
    \/ Unmount
    \/ Commit
    \/ \E value \in SetOpenArgs, store \in CookieStores : SetOpen(value, store)
    \/ \E store \in CookieStores : ToggleSidebar(store)
    \/ \E v \in BOOLEAN : SetOpenMobile(v)
    \/ SetIsMobile
    \/ \E o \in Maybe(BOOLEAN), f \in BOOLEAN : PropsChange(o, f)
    \/ UseSidebar
    \/ \E tooltip \in Tooltips : SidebarMenuButton(tooltip)
    \/ \E event \in KeyEvents, store \in CookieStores : KeyDown(event, store)
    \/ Rerender

Spec == Init /\ [][Next]_vars

---------------------------------------------------------------------------
(* Properties *)

\* neither open nor onOpenChange is supplied, and none has been since the
\* mount
Uncontrolled == props.open = Undefined /\ ~props.onOpenChange /\ ~since.reowned

\* both open and onOpenChange are supplied, and have been since the mount
\* (the owner may have changed the value of open)
Controlled == props.open # Undefined /\ props.onOpenChange /\ ~since.reowned

\* exactly one of open and onOpenChange is supplied
PartlyControlled == (props.open = Undefined) = props.onOpenChange

\* the values the cookie jar holds under the sidebar's name
Persisted(jar) == {c.value : c \in {d \in jar : d.name = SIDEBAR_COOKIE_NAME}}

\* C1: after a run of n toggleSidebar() calls on an uncontrolled provider,
\* with isMobile fixed and a re-render committed before each call, the
\* authoritative slot equals its value before the run when n is even and
\* the negation of that value when n is odd.
C1_ToggleParity ==
    (mounted /\ Uncontrolled /\ run.len > 0 /\ run.clean)
        => (Authoritative = (run.start # (run.len % 2 = 1)))

\* C2: on an uncontrolled provider, two calls setOpen(open => !open) made in
\* the same turn, with no render between them, leave _open as it was before
\* the first call.
C2_DoubleNegateRoundTrip ==
    (mounted /\ Uncontrolled
       /\ turn = <<(<<"setOpen", Negate>>), (<<"setOpen", Negate>>)>>)
        => (_open = turnStart._open)

\* C3: on a controlled provider in desktop mode, setOpen(true) calls
\* onOpenChange with true exactly once and leaves _open as it was; and at
\* every render of a controlled provider the open of the context value, and
\* the open that setOpen resolves an updater against, is the open prop.
C3_ControlledSetOpen ==
    /\ [](mounted /\ Controlled
             => (ctx.open = props.open[1] /\ ctx.setOpen.open = props.open[1]))
    /\ [][(lastOp'.name = "setOpen" /\ lastOp'.arg = "true"
             /\ Controlled /\ ~isMobile)
            => (/\ lastOp'.onChange = <<TRUE>>
                /\ _open' = _open
                /\ ResolvedOpen(props', _open') = props.open[1])]_vars

\* C3 witness: setOpen(true) was called on a controlled desktop provider
\* whose owner holds open at false; the owner was told, open is still false.
C3_Witness ==
    /\ mounted /\ Controlled /\ ~isMobile
    /\ lastOp.name = "setOpen" /\ lastOp.arg = "true"
    /\ lastOp.onChange = <<TRUE>>
    /\ props.open = Some(FALSE) /\ ctx.open = FALSE

\* C4: mounting a provider with exactly one of open and onOpenChange throws,
\* and no provider state exists afterwards.
C4_PartialControlRejected ==
    (lastOp.name = "mount" /\ PartlyControlled) => (lastOp.threw /\ ~mounted)

\* C5: useSidebar() throws and returns nothing when no provider is mounted;
\* under a mounted provider it does not throw and returns the context value.
C5_UseSidebarOutsideProvider ==
    (lastOp.name = "useSidebar")
        => /\ lastOp.threw = ~mounted
           /\ lastOp.threw => lastOp.returned = Undefined
           /\ ~lastOp.threw => lastOp.returned = Some(ctx)

\* C5 witness: useSidebar() threw after the provider had been unmounted
\* (the cookie a setOpen call wrote is still there).
C5_Witness ==
    lastOp.name = "useSidebar" /\ lastOp.threw /\ ~mounted /\ cookie # {}

\* C6: a change of isMobile from false to true leaves _open unchanged, and
\* a toggleSidebar() call while isMobile is true negates openMobile and
\* leaves _open, the cookie and the owner alone.
C6_CompactToggleLeavesDesktop ==
    [][/\ (lastOp'.name = "setIsMobile" /\ ~isMobile /\ isMobile')
            => (_open' = _open /\ openMobile' = openMobile)
       /\ (lastOp'.name = "toggleSidebar" /\ isMobile)
            => (/\ _open' = _open
                /\ openMobile' = ~openMobile
                /\ cookie' = cookie
                /\ lastOp'.onChange = <<>>)]_vars

\* C6 witness: in mobile mode a toggleSidebar() call has opened the mobile
\* sheet while _open is still true.
C6_Witness ==
    /\ mounted /\ isMobile
    /\ lastOp.name = "toggleSidebar"
    /\ openMobile /\ ~turnStart.openMobile
    /\ _open /\ Uncontrolled

\* C7: right after the mount, open is the open prop when one is supplied,
\* otherwise the value the cookie holds when it holds one, otherwise
\* defaultOpen.
C7_InitialOpenFromPersisted ==
    (lastOp.name = "mount" /\ mounted)
        => (ctx.open =
              IF props.open # Undefined THEN props.open[1]
              ELSE IF Persisted(cookie) # {} THEN Persisted(cookie) = {"true"}
              ELSE DefaultOpen(props))

\* C8: a setOpen or toggleSidebar call that changes _open makes one cookie
\* assignment, and when the browser stores it the cookie then holds the
\* string form of the new _open.
C8_DesktopMutationPersists ==
    [][(lastOp'.name \in {"setOpen", "toggleSidebar"} /\ _open' # _open)
         => (/\ lastOp'.writes = 1
             /\ lastOp'.store = "stored"
                  => Persisted(cookie') = {BoolToString(_open')})]_vars

\* C8 witness: a toggleSidebar() call closed the desktop sidebar and the
\* cookie holds "false".
C8_Witness ==
    /\ mounted /\ ~isMobile /\ Uncontrolled
    /\ lastOp.name = "toggleSidebar" /\ lastOp.writes = 1
    /\ turnStart._open /\ ~_open
    /\ Persisted(cookie) = {"false"}

\* C9: a step that changes openMobile writes no cookie, and the cookie is
\* written only by setOpen calls and by toggleSidebar calls (direct or by the
\* keyboard shortcut) made in desktop mode, which leave openMobile unchanged.
C9_MobileNeverPersisted ==
    [][/\ (openMobile' # openMobile)
            => (cookie' = cookie /\ lastOp'.writes = 0)
       /\ (cookie' # cookie \/ lastOp'.writes # 0)
            => (/\ openMobile' = openMobile
                /\ \/ lastOp'.name = "setOpen"
                   \/ lastOp'.name \in {"toggleSidebar", "keydown"}
                        /\ ~isMobile)]_vars

\* C9 witness: a toggleSidebar() call in mobile mode opened the sheet, wrote
\* nothing, and the cookie still holds what a desktop call wrote before.
C9_Witness ==
    /\ mounted /\ isMobile
    /\ lastOp.name = "toggleSidebar" /\ lastOp.writes = 0
    /\ openMobile /\ ~turnStart.openMobile
    /\ Persisted(cookie) = {"false"} /\ _open

\* C10 as stated: SidebarMenuButton renders the Tooltip exactly when
\* isMobile is false and state is "collapsed".
C10_HintIffCollapsedDesktop ==
    (lastOp.name = "SidebarMenuButton" /\ ~lastOp.threw)
        => (lastOp.shown = (~ctx.isMobile /\ ctx.state = "collapsed"))

\* C10 as amended: SidebarMenuButton renders the Tooltip exactly when it has
\* a non-empty tooltip, isMobile is false and state is "collapsed"; so never
\* when isMobile is true and never when state is "expanded".
C10_HintIffTooltipCollapsedDesktop ==
    (lastOp.name = "SidebarMenuButton" /\ ~lastOp.threw)
        => /\ lastOp.shown = (/\ lastOp.tooltip \in {Some("Settings")}
                              /\ ~ctx.isMobile
                              /\ ctx.state = "collapsed")
           /\ ctx.isMobile => ~lastOp.shown
           /\ ctx.state = "expanded" => ~lastOp.shown

\* C10 witness: a SidebarMenuButton with a tooltip rendered it, under a
\* collapsed desktop sidebar.
C10_Witness ==
    /\ mounted /\ lastOp.name = "SidebarMenuButton" /\ lastOp.shown
    /\ lastOp.tooltip = Some("Settings")
    /\ ~ctx.isMobile /\ ctx.state = "collapsed" /\ ~ctx.open

---------------------------------------------------------------------------
(* The keyboard shortcut: C11, C12 *)

\* C11: while the provider is mounted, a keydown event whose key is "b" and
\* that carries the meta or the control modifier has its default action
\* prevented and makes exactly one toggleSidebar() call.
C11_ShortcutPreventsAndTogglesOnce ==
    (lastOp.name = "keydown" /\ mounted /\ MatchesShortcut(lastOp.event[1]))
        => (lastOp.prevented /\ lastOp.toggles = 1)

\* Ctrl+b alone, pressed on a mounted provider, was prevented and toggled once.
C11_Witness ==
    /\ lastOp.name = "keydown"
    /\ mounted
    /\ lastOp.event = Some([key |-> "b", metaKey |-> FALSE, ctrlKey |-> TRUE])
    /\ lastOp.prevented
    /\ lastOp.toggles = 1

\* C12: a mounted provider has exactly one keydown listener registered, the
\* one of its current toggleSidebar, also after renders that changed the
\* identity of toggleSidebar; an unmounted provider has none.
C12_OneListenerPerProvider ==
    /\ mounted => listeners = <<HandleKeyDown(ctx.toggleSidebar)>>
    /\ ~mounted => listeners = <<>>

\* a render has replaced toggleSidebar, and one listener is registered.
C12_Witness ==
    /\ mounted
    /\ lastOp.name = "setIsMobile"
    /\ Len(listeners) = 1
    /\ listeners[1].toggleSidebar.isMobile = isMobile

---------------------------------------------------------------------------
(* The memoized context value: C13 *)

\* the steps in which a mounted provider renders again
RenderAgain ==
    /\ mounted /\ mounted'
    /\ lastOp'.name \in {"commit", "setIsMobile", "propsChange", "rerender"}

\* C13: between two consecutive renders the context value is a new object if
\* and only if open, openMobile, isMobile, the identity of setOpen or the
\* identity of toggleSidebar changed.
C13_NewSnapshotIffInputsChanged ==
    [][RenderAgain =>
         (lastOp'.newCtx <=> \/ ctx'.open # ctx.open
                             \/ openMobile' # turnStart.openMobile
                             \/ isMobile' # isMobile
                             \/ ctx'.setOpen # ctx.setOpen
                             \/ ctx'.toggleSidebar # ctx.toggleSidebar)]_vars

---------------------------------------------------------------------------
(* The slot setOpen acts on: C14 *)

---------------------------------------------------------------------------
(* The mobile slot is uncontrolled: C15 *)

\* a step that called toggleSidebar() once, directly or by the shortcut
ToggledOnce ==
    \/ lastOp'.name = "toggleSidebar"
    \/ lastOp'.name = "keydown" /\ lastOp'.toggles = 1

\* C15: in mobile mode toggleSidebar() negates the stored openMobile and
\* never calls onOpenChange, whether or not the provider is controlled; the
\* desktop _open is left alone.
C15_MobileToggleIsLocal ==
    [][(ToggledOnce /\ isMobile) =>
         /\ openMobile' = ~openMobile
         /\ _open' = _open
         /\ lastOp'.onChange = <<>>]_vars

\* a controlled provider in mobile mode was toggled: openMobile went from
\* false to true and onOpenChange was not called.
C15_Witness ==
    /\ Controlled
    /\ isMobile
    /\ lastOp.name = "toggleSidebar"
    /\ Len(turn) = 1
    /\ openMobile /\ ~turnStart.openMobile
    /\ lastOp.onChange = <<>>

---------------------------------------------------------------------------
(* Ownership over the life of a provider: C16 *)

\* C16: the ownership of a provider is decided when it is mounted and no
\* later render changes it: when the owner supplies or withdraws open or
\* onOpenChange, the setOpen of the new render routes its result the way the
\* setOpen of the render before did (to onOpenChange, or to _open).
C16_OwnershipFixedAtMount ==
    [][(mounted /\ lastOp'.name = "propsChange")
         => ctx'.setOpen.setOpenProp = ctx.setOpen.setOpenProp]_vars

---------------------------------------------------------------------------
(* The controlled value: C17 *)

---------------------------------------------------------------------------
(* A failing cookie assignment: C18 *)

\* C18: when the browser does not store the cookie, the setOpen or
\* toggleSidebar call that assigned it still returns normally, and the
\* resolved value has reached _open or onOpenChange.
C18_WriteFailureSwallowed ==
    (lastOp.name \in {"setOpen", "toggleSidebar"}
       /\ lastOp.store \in {"ignored", "throws"})
        => /\ ~lastOp.threw
           /\ lastOp.name = "setOpen"
                => LET r == Resolve(lastOp.arg, ctx.open)
                   IN  IF props.onOpenChange THEN lastOp.onChange = <<r>>
                       ELSE _open = r

---------------------------------------------------------------------------
(* The derived state: C19 *)

\* C19: in every context value state is "expanded" exactly when its open is
\* true and "collapsed" exactly when it is false, and that open is the
\* desktop open of the last render (the open prop, else _open), whatever
\* openMobile and isMobile are.
C19_StateDerivedFromOpen ==
    mounted => /\ (ctx.state = "expanded") = ctx.open
               /\ (ctx.state = "collapsed") = ~ctx.open
               /\ ctx.open = ResolvedOpen(props, turnStart._open)

\* in mobile mode with the sheet open, the context value a consumer got
\* says "collapsed", its desktop open being false.
C19_Witness ==
    /\ mounted /\ isMobile /\ openMobile
    /\ lastOp.name = "useSidebar"
    /\ lastOp.returned = Some(ctx)
    /\ ~ctx.open /\ ctx.state = "collapsed"

---------------------------------------------------------------------------
(* toggleSidebar against setOpen: C20 *)

\* C20: in every state of a mounted provider, a toggleSidebar() call and a
\* setOpen(open => !open) call would have the same result: the same _open
\* and openMobile, the same onOpenChange calls and the same cookie writes.
C20_ToggleEqualsSetOpenNegate ==
    mounted =>
        LET t == ToggleCall(ctx.toggleSidebar, _open, openMobile, cookie)
            n == SetOpenCall(ctx.setOpen, Negate, _open, cookie)
        IN  /\ t._open = n._open
            /\ t.openMobile = openMobile
            /\ t.onChange = n.onChange
            /\ t.writes = n.writes
            /\ t.cookie = n.cookie

---------------------------------------------------------------------------
(* The cookie record: C21 *)

\* C21: the cookie jar holds at most one record, under the name
\* "sidebar_state", whose value is "true" or "false", whose path is "/" and
\* whose max-age is 604800 seconds (7 days of 86400 seconds); and a setOpen
\* call whose assignment the browser stored has left exactly the record of
\* the value it resolved.
C21_CookieRecord ==
    /\ Cardinality(cookie) <= 1
    /\ \A c \in cookie : /\ c.name = "sidebar_state"
                          /\ c.value \in {"true", "false"}
                          /\ c.path = "/"
                          /\ c.maxAge = 604800
                          /\ c.maxAge = 7 * 86400
    /\ (lastOp.name = "setOpen" /\ lastOp.store = "stored")
         => cookie = {[name |-> "sidebar_state",
                       value |-> IF Resolve(lastOp.arg, ctx.open)
                                 THEN "true" ELSE "false",
                       path |-> "/",
                       maxAge |-> 604800]}

\* setOpen(false) was called and stored: the jar holds sidebar_state=false.
C21_Witness ==
    /\ lastOp.name = "setOpen" /\ lastOp.arg = "false"
    /\ lastOp.store = "stored"
    /\ \E c \in cookie : c.value = "false" /\ c.maxAge = 604800

---------------------------------------------------------------------------
(* The context value after a render: C22 *)

---------------------------------------------------------------------------
(* Who writes the slots: C23 *)

---------------------------------------------------------------------------
(* The two slots: C24 *)

\* a step of a provider that stays mounted
StaysMounted == mounted /\ mounted'

---------------------------------------------------------------------------
(* A toggle after a committed render: C25 *)

\* C25: on an uncontrolled provider in desktop mode, a toggleSidebar() call
\* (direct or by the keyboard shortcut) made when every earlier call has been
\* followed by its re-render flips _open.
C25_CommittedToggleFlips ==
    [][(mounted /\ Uncontrolled /\ ~isMobile /\ turn = <<>> /\ ToggledOnce)
         => _open' = ~_open]_vars

---------------------------------------------------------------------------
(* The cookie of a controlled provider: C26 *)

\* C26: on a controlled provider, a setOpen call, or a toggleSidebar call
\* that goes through setOpen, passes the resolved value to onOpenChange and
\* assigns the cookie once, and when the browser stores it the cookie holds
\* that value, whatever the open prop is; and a step that does not call
\* onOpenChange leaves the cookie as it is.
C26_ControlledPersistsReported ==
    /\ []((mounted /\ Controlled
              /\ (lastOp.name = "setOpen" \/ lastOp.onChange # <<>>))
            => /\ lastOp.writes = 1
               /\ Len(lastOp.onChange) = 1
               /\ lastOp.store = "stored"
                    => Persisted(cookie) = {BoolToString(lastOp.onChange[1])})
    /\ [][(mounted /\ Controlled /\ mounted' /\ lastOp'.onChange = <<>>)
            => cookie' = cookie]_vars

\* setOpen(true) on a controlled provider whose owner holds open at false:
\* onOpenChange got true, the cookie holds "true", the open prop is false.
C26_Witness ==
    /\ mounted /\ Controlled
    /\ lastOp.name = "setOpen" /\ lastOp.onChange = <<TRUE>>
    /\ lastOp.store = "stored"
    /\ Persisted(cookie) = {"true"}
    /\ props.open = Some(FALSE) /\ ~ctx.open

---------------------------------------------------------------------------
(* One of open and onOpenChange: C27, C28 *)

\* the provider was mounted with onOpenChange and without open, and has
\* been so since
OnlyOnOpenChange ==
    props.open = Undefined /\ props.onOpenChange /\ ~since.reowned

\* the provider was mounted with open and without onOpenChange, and has
\* been so since
OnlyOpen == props.open # Undefined /\ ~props.onOpenChange /\ ~since.reowned

\* the last step was a toggleSidebar() call made in desktop mode
DesktopToggle ==
    /\ ~isMobile
    /\ \/ lastOp.name = "toggleSidebar"
       \/ lastOp.name = "keydown" /\ lastOp.toggles = 1

\* C27: on a provider given onOpenChange but no open, a setOpen call and a
\* desktop toggleSidebar() call pass the resolved value to onOpenChange, and
\* _open and the open of the context value stay at defaultOpen.
C27_OnlySetterKeepsDefaultOpen ==
    (mounted /\ OnlyOnOpenChange)
        => /\ _open = DefaultOpen(props)
           /\ ctx.open = DefaultOpen(props)
           /\ (lastOp.name = "setOpen")
                => lastOp.onChange = <<Resolve(lastOp.arg, DefaultOpen(props))>>
           /\ DesktopToggle => lastOp.onChange = <<~DefaultOpen(props)>>

\* setOpen(false) on a provider given only onOpenChange, defaultOpen true:
\* onOpenChange got false, consumers still see open true.
C27_Witness ==
    /\ mounted /\ OnlyOnOpenChange
    /\ lastOp.name = "setOpen" /\ lastOp.arg = "false"
    /\ lastOp.onChange = <<FALSE>>
    /\ _open /\ ctx.open

\* C28: on a provider given open but no onOpenChange, a setOpen call and a
\* desktop toggleSidebar() call call no onOpenChange, setOpen stores the
\* value it resolved against the open prop in _open, and the open of the
\* context value stays the open prop.
C28_OnlyValueKeepsOpenProp ==
    (mounted /\ OnlyOpen)
        => /\ ctx.open = props.open[1]
           /\ (lastOp.name = "setOpen")
                => /\ lastOp.onChange = <<>>
                   /\ _open = Resolve(lastOp.arg, props.open[1])
           /\ DesktopToggle => lastOp.onChange = <<>>

\* setOpen(false) on a provider given only open = true: _open is false,
\* nobody was told, and after the re-render consumers still see open true.
C28_Witness ==
    /\ mounted /\ OnlyOpen
    /\ props.open = Some(TRUE) /\ props.defaultOpen = Undefined
    /\ lastOp.name = "commit"
    /\ ~_open
    /\ ctx.open /\ ctx.state = "expanded"

---------------------------------------------------------------------------
(* Other keys: C29 *)

\* C29: a keydown event whose key is not "b", or that carries neither the
\* meta nor the control modifier, leaves _open, openMobile and the cookie
\* unchanged, makes no toggleSidebar() call and no cookie assignment, and
\* does not have its default action prevented.
C29_OtherKeysDoNothing ==
    [][(lastOp'.name = "keydown" /\ ~MatchesShortcut(lastOp'.event[1]))
         => /\ _open' = _open
            /\ openMobile' = openMobile
            /\ cookie' = cookie
            /\ lastOp'.toggles = 0
            /\ lastOp'.writes = 0
            /\ ~lastOp'.prevented]_vars

\* a plain "b" was pressed on a mounted provider: nothing was toggled or
\* prevented.
C29_Witness ==
    /\ mounted
    /\ lastOp.name = "keydown"
    /\ lastOp.event = Some([key |-> "b", metaKey |-> FALSE, ctrlKey |-> FALSE])
    /\ lastOp.toggles = 0 /\ ~lastOp.prevented
    /\ _open = turnStart._open /\ openMobile = turnStart.openMobile

---------------------------------------------------------------------------
(* setOpen with a boolean: C30 *)

\* C30: setOpen(v) with v true or false detects no change: whatever open
\* is, it assigns the cookie once and passes v to onOpenChange when that
\* prop is supplied, else stores v in _open; and a second setOpen(v) leaves
\* _open and the cookie as the first left them.
C30_SetOpenLiteralUnconditional ==
    /\ [][(lastOp'.name = "setOpen" /\ lastOp'.arg \in {"true", "false"})
            => LET v == (lastOp'.arg = "true")
               IN  /\ lastOp'.writes = 1
                   /\ lastOp'.store = "stored"
                        => Persisted(cookie') = {lastOp'.arg}
                   /\ IF props.onOpenChange
                      THEN lastOp'.onChange = <<v>> /\ _open' = _open
                      ELSE lastOp'.onChange = <<>> /\ _open' = v]_vars
    /\ [](mounted =>
             \A a \in {"true", "false"} :
                 LET one == SetOpenCall(ctx.setOpen, a, _open, cookie)
                     two == SetOpenCall(ctx.setOpen, a, one._open, one.cookie)
                 IN  /\ two._open = one._open
                     /\ two.cookie = one.cookie
                     /\ two.onChange = one.onChange
                     /\ two.writes = 1)

\* setOpen(true) was called while open was true already, onOpenChange
\* supplied: onOpenChange got true and the cookie was assigned.
C30_Witness ==
    /\ mounted /\ props.onOpenChange
    /\ ctx.open
    /\ lastOp.name = "setOpen" /\ lastOp.arg = "true"
    /\ lastOp.onChange = <<TRUE>>
    /\ lastOp.writes = 1 /\ lastOp.store = "stored"
    /\ Persisted(cookie) = {"true"}

====
